---- MODULE Spec2Model ----
(***************************************************************************)
(* Model of DB.Schema (src/mysql.go): the migration-log reconciliation     *)
(* loop.  One action per step of the function: the call, the three steps   *)
(* of the preliminary CREATE TABLE transaction, one ReadLine with the      *)
(* line assembly that follows it, the log lookup with its classification,  *)
(* and the steps of the per-statement transaction.  The database is the    *)
(* committed dbSchemaLog table plus the writes pending in the open         *)
(* transaction; every database round trip may fail.  DB.Update is modelled *)
(* beside it, on a state of its own, and so are two invocations of Schema  *)
(* made at the same time on one database.                                  *)
(***************************************************************************)
EXTENDS Integers, Sequences, FiniteSets, TLC

(* ------------------------------ bounds -------------------------------- *)
\* longest source stream, in bytes
MaxStream == 5
\* size of the bufio.Reader buffer (4096 in the program, scaled down)
BufSize == 2
\* longest log a run may start from
MaxInitLog == 2
\* invocations of Schema in one behaviour
MaxRuns == 2
\* database round trips that fail in one invocation
MaxFaults == 1
\* statements in the source of two runs made at the same time
MaxConcLen == 2
\* database round trips that fail in one of two runs made at the same time
ConcMaxFaults == 1

(* ------------------------------ values -------------------------------- *)
NL == "NL"
Letters == {"a", "b"}
Bytes == Letters \cup {NL}

RECURSIVE SeqsUpTo(_, _)
SeqsUpTo(S, n) ==
    IF n = 0 THEN {<< >>}
    ELSE LET shorter == SeqsUpTo(S, n - 1)
         IN  shorter \cup {Append(s, x) : s \in {t \in shorter : Len(t) = n - 1}, x \in S}

Streams == SeqsUpTo(Bytes, MaxStream)

\* the logs a run may start from: rows 1..m written by earlier successful runs
InitLogs == UNION {[1..m -> {<<x>> : x \in Letters}] : m \in 0..MaxInitLog}

\* the error values Schema returns (the fmt.Errorf format strings)
ErrBeginTx == "unable to start a new transaction"
ErrCreateLog == "unable to create dbSchemaLog"
ErrCommitLog == "unable to commit dbSchemaLog"
ErrRead == "error reading scheme lines"
ErrNoMatch == "dbSchemaLog does not match schema being applied"
ErrInsert == "unable to insert dbSchemaLog row"
ErrChange == "unable to make schema change row"
ErrCommit == "unable to commit schema change row"

Running == [msg |-> "running", row |-> 0, stored |-> << >>, incoming |-> << >>]
Nil == [msg |-> "nil", row |-> 0, stored |-> << >>, incoming |-> << >>]
Err(m, n, s, i) == [msg |-> m, row |-> n, stored |-> s, incoming |-> i]

NoTx == [open |-> FALSE, ins |-> {}, del |-> {}, auto |-> FALSE]

VARIABLES
    log,            \* table dbSchemaLog, committed rows: id -> tx
    tx,             \* the transaction Schema holds: pending inserts and deletes
    openTx,         \* transactions begun and not yet ended by Commit or Rollback
    schemaChanges,  \* DB.schemaChanges
    currentTx,      \* local currentTx
    data,           \* local data
    b,              \* local b, the assembled line
    rest,           \* bytes of the source not yet read
    pc,             \* position in Schema
    ret,            \* what Schema returned (Running while it has not)
    faults,         \* failed database round trips of this invocation
    src,            \* history: the whole source of this invocation
    seq0,           \* history: DB.schemaChanges when this invocation started
    log0,           \* history: the log when this invocation started
    trace,          \* history: the database and reader operations of this invocation
    prev,           \* history: what the previous invocation returned and met
    run,            \* history: invocations started
    upd,            \* the call of Update in hand: its argument, locals and result
    clog,           \* two runs at once: table dbSchemaLog, committed rows
    runs,           \* two runs at once: the locals of each invocation of Schema
    clog0,          \* history: the log when the two runs started
    ops             \* history: the operations of the statement transactions of both

vars == <<log, tx, openTx, schemaChanges, currentTx, data, b, rest,
          pc, ret, faults, src, seq0, log0, trace, prev, run, upd,
          clog, runs, clog0, ops>>

hist == <<src, seq0, log0, prev, run>>
\* the state of the other operations of the package, which Schema does not touch
elsewhere == <<upd, clog, runs, clog0, ops>>

(* ---------------------------- the database ---------------------------- *)
\* INSERT INTO dbSchemaLog (id, tx) VALUES (n, t)
AddRow(l, n, t) == [i \in DOMAIN l \cup {n} |-> IF i = n THEN t ELSE l[i]]
\* DELETE FROM dbSchemaLog WHERE id = n
DelRow(l, n) == [i \in DOMAIN l \ {n} |-> l[i]]

RECURSIVE AddRows(_, _)
AddRows(l, rows) ==
    IF rows = {} THEN l
    ELSE LET r == CHOOSE r \in rows : TRUE
         IN  AddRows(AddRow(l, r[1], r[2]), rows \ {r})

\* the table once the writes pending in t are made durable: the inserts, then the deletes
Applied(l, t) ==
    LET added == AddRows(l, t.ins)
    IN  [i \in DOMAIN added \ t.del |-> added[i]]

Event(kind, n, text, res) == [op |-> kind, row |-> n, text |-> text, res |-> res]
Outcome(ok) == IF ok THEN "ok" ELSE "fail"

CanFail == faults < MaxFaults

(* ------------------------- bufio.Reader.ReadLine ----------------------- *)
Min(x, y) == IF x < y THEN x ELSE y
HasNL(s) == \E i \in 1..Len(s) : s[i] = NL
FirstNL(s) == CHOOSE i \in 1..Len(s) : s[i] = NL /\ \A j \in 1..(i - 1) : s[j] # NL
From(s, i) == SubSeq(s, i, Len(s))

\* One call of ReadLine on a reader whose source still holds s.  ReadSlice fills the
\* buffer until it holds a newline, the source has reported its end, or the buffer is
\* full, in that order.  errWithData: the source hands over its last bytes together
\* with its error, so that the error is pending when the full buffer is looked at.
\* end: what the exhausted source reports, "EOF" or "ERR".
ReadLine(s, errWithData, end) ==
    LET w == SubSeq(s, 1, Min(Len(s), BufSize))
    IN  IF HasNL(w)
        THEN [line |-> SubSeq(s, 1, FirstNL(w) - 1), isPrefix |-> FALSE, err |-> "nil",
              rest |-> From(s, FirstNL(w) + 1)]
        ELSE IF Len(s) = 0
        THEN [line |-> << >>, isPrefix |-> FALSE, err |-> end, rest |-> << >>]
        ELSE IF Len(s) < BufSize \/ (Len(s) = BufSize /\ errWithData)
        THEN [line |-> s, isPrefix |-> FALSE, err |-> "nil", rest |-> << >>]
        ELSE [line |-> w, isPrefix |-> TRUE, err |-> "nil", rest |-> From(s, BufSize + 1)]

(* ------------------------------- Schema -------------------------------- *)
Return(r) ==
    /\ pc' = "idle"
    /\ ret' = r

Log(e) == trace' = Append(trace, e)

\* Connect: a new DB value, its counter zero
Connect ==
    /\ pc = "idle"
    /\ schemaChanges' = 0
    /\ UNCHANGED <<log, tx, openTx, currentTx, data, b, rest, pc, ret, faults, trace>>
    /\ UNCHANGED hist
    /\ UNCHANGED elsewhere

\* the call d.Schema(ctx, schema): the locals are declared, the field d.schemaChanges
\* is what the earlier invocations on d left
SchemaCall(s) ==
    /\ pc = "idle"
    /\ run < MaxRuns
    /\ pc' = "prelimBegin"
    /\ ret' = Running
    /\ currentTx' = << >>
    /\ data' = << >>
    /\ b' = << >>
    /\ rest' = s
    /\ tx' = NoTx
    /\ faults' = 0
    /\ trace' = << >>
    /\ src' = s
    /\ seq0' = schemaChanges
    /\ log0' = log
    /\ prev' = [msg |-> ret.msg, row |-> ret.row, faults |-> faults]
    /\ run' = run + 1
    /\ UNCHANGED <<log, openTx, schemaChanges>>
    /\ UNCHANGED elsewhere

\* tx, e := d.db.BeginTx(ctx, nil) of the log-table step
PrelimBegin(ok) ==
    /\ pc = "prelimBegin"
    /\ IF ok
       THEN /\ tx' = [NoTx EXCEPT !.open = TRUE]
            /\ openTx' = openTx + 1
            /\ pc' = "prelimExec"
            /\ UNCHANGED <<ret, faults>>
       ELSE /\ CanFail
            /\ faults' = faults + 1
            /\ Return(Err(ErrBeginTx, 0, << >>, << >>))
            /\ UNCHANGED <<tx, openTx>>
    /\ Log(Event("begin", 0, << >>, Outcome(ok)))
    /\ UNCHANGED <<log, schemaChanges, currentTx, data, b, rest>>
    /\ UNCHANGED hist
    /\ UNCHANGED elsewhere

\* a variant of the creation step that does not look at the error of the CREATE and
\* goes on to the commit
PrelimCreateUnchecked(ok) ==
    /\ pc = "prelimExec"
    /\ ok \/ CanFail
    /\ faults' = IF ok THEN faults ELSE faults + 1
    /\ pc' = "prelimCommit"
    /\ Log(Event("create", 0, << >>, Outcome(ok)))
    /\ UNCHANGED <<log, tx, openTx, schemaChanges, currentTx, data, b, rest, ret>>
    /\ UNCHANGED hist
    /\ UNCHANGED elsewhere

\* tx.Exec(CREATE TABLE IF NOT EXISTS dbSchemaLog ...); on failure Schema returns
\* with the transaction neither committed nor rolled back
PrelimCreate(ok) ==
    /\ pc = "prelimExec"
    /\ IF ok
       THEN /\ pc' = "prelimCommit"
            /\ UNCHANGED <<ret, faults>>
       ELSE /\ CanFail
            /\ faults' = faults + 1
            /\ Return(Err(ErrCreateLog, 0, << >>, << >>))
    /\ Log(Event("create", 0, << >>, Outcome(ok)))
    /\ UNCHANGED <<log, tx, openTx, schemaChanges, currentTx, data, b, rest>>
    /\ UNCHANGED hist
    /\ UNCHANGED elsewhere

\* e = tx.Commit() of the log-table step
PrelimCommit(ok) ==
    /\ pc = "prelimCommit"
    /\ tx' = NoTx
    /\ openTx' = openTx - 1
    /\ IF ok
       THEN /\ pc' = "read"
            /\ UNCHANGED <<ret, faults>>
       ELSE /\ CanFail
            /\ faults' = faults + 1
            /\ Return(Err(ErrCommitLog, 0, << >>, << >>))
    /\ Log(Event("commit", 0, << >>, Outcome(ok)))
    /\ UNCHANGED <<log, schemaChanges, currentTx, data, b, rest>>
    /\ UNCHANGED hist
    /\ UNCHANGED elsewhere

\* b, o, e := schemaData.ReadLine() and the assembly of the line, up to d.schemaChanges++
ReadLineStep(errWithData, end) ==
    /\ pc = "read"
    /\ LET r == ReadLine(rest, errWithData, end)
           line == IF Len(data) > 0 THEN data \o r.line ELSE r.line
       IN  /\ rest' = r.rest
           /\ Log(Event("read", 0, r.line, r.err))
           /\ IF r.isPrefix
              THEN /\ data' = data \o r.line
                   /\ UNCHANGED <<b, schemaChanges, pc, ret>>
              ELSE /\ data' = << >>
                   /\ IF r.err = "EOF"
                      THEN /\ Return(Nil)
                           /\ UNCHANGED <<b, schemaChanges>>
                      ELSE IF r.err # "nil"
                      THEN /\ Return(Err(ErrRead, 0, << >>, << >>))
                           /\ UNCHANGED <<b, schemaChanges>>
                      ELSE IF Len(line) = 0
                      THEN UNCHANGED <<b, schemaChanges, pc, ret>>
                      ELSE /\ schemaChanges' = schemaChanges + 1
                           /\ b' = line
                           /\ pc' = "lookup"
                           /\ UNCHANGED ret
    /\ UNCHANGED <<log, tx, openTx, currentTx, faults>>
    /\ UNCHANGED hist
    /\ UNCHANGED elsewhere

\* QueryRowContext(...).Scan(&currentTx): what the lookup of row n answers.
\* failed: the round trip failed with an error that is not sql.ErrNoRows.
\* Scan writes currentTx only when it found a row.
Scan(l, n, cur, failed) ==
    IF failed THEN [e |-> "error", currentTx |-> cur]
    ELSE IF n \in DOMAIN l THEN [e |-> "nil", currentTx |-> l[n]]
    ELSE [e |-> "ErrNoRows", currentTx |-> cur]

\* the two tests that follow the lookup
Classify(cur, line, e) ==
    IF cur = line THEN "skip"
    ELSE IF e # "ErrNoRows" THEN "halt"
    ELSE "new"

\* the lookup of row d.schemaChanges and what Schema does with its answer
Lookup(failed) ==
    /\ pc = "lookup"
    /\ failed => CanFail
    /\ faults' = IF failed THEN faults + 1 ELSE faults
    /\ LET r == Scan(log, schemaChanges, currentTx, failed)
           c == Classify(r.currentTx, b, r.e)
       IN  /\ currentTx' = r.currentTx
           /\ Log(Event("lookup", schemaChanges, b, r.e))
           /\ IF c = "skip"
              THEN /\ pc' = "read"
                   /\ UNCHANGED ret
              ELSE IF c = "halt"
              THEN Return(Err(ErrNoMatch, schemaChanges, r.currentTx, b))
              ELSE /\ pc' = "begin"
                   /\ UNCHANGED ret
    /\ UNCHANGED <<log, tx, openTx, schemaChanges, data, b, rest>>
    /\ UNCHANGED hist
    /\ UNCHANGED elsewhere

\* tx, e = d.db.BeginTx(ctx, nil) for the statement
BeginTx(ok) ==
    /\ pc = "begin"
    /\ IF ok
       THEN /\ tx' = [NoTx EXCEPT !.open = TRUE]
            /\ openTx' = openTx + 1
            /\ pc' = "insert"
            /\ UNCHANGED <<ret, faults>>
       ELSE /\ CanFail
            /\ faults' = faults + 1
            /\ Return(Err(ErrBeginTx, 0, << >>, << >>))
            /\ UNCHANGED <<tx, openTx>>
    /\ Log(Event("begin", schemaChanges, b, Outcome(ok)))
    /\ UNCHANGED <<log, schemaChanges, currentTx, data, b, rest>>
    /\ UNCHANGED hist
    /\ UNCHANGED elsewhere

\* a variant of the insert that does not look at its error and goes on to the
\* statement
InsertLogUnchecked(ok) ==
    /\ pc = "insert"
    /\ ok => schemaChanges \notin DOMAIN log
    /\ ok \/ CanFail \/ schemaChanges \in DOMAIN log
    /\ faults' = IF ok THEN faults ELSE faults + 1
    /\ tx' = IF ok THEN [tx EXCEPT !.ins = @ \cup {<<schemaChanges, b>>}] ELSE tx
    /\ pc' = "exec"
    /\ Log(Event("insert", schemaChanges, b, Outcome(ok)))
    /\ UNCHANGED <<log, openTx, schemaChanges, currentTx, data, b, rest, ret>>
    /\ UNCHANGED hist
    /\ UNCHANGED elsewhere

\* INSERT INTO dbSchemaLog (id, tx) VALUES (d.schemaChanges, b); tx.Rollback() when
\* it fails.  The primary key refuses an id the table already holds.
InsertLog(ok) ==
    /\ pc = "insert"
    /\ ok => schemaChanges \notin DOMAIN log
    /\ IF ok
       THEN /\ tx' = [tx EXCEPT !.ins = @ \cup {<<schemaChanges, b>>}]
            /\ pc' = "exec"
            /\ UNCHANGED <<ret, faults, openTx>>
       ELSE /\ CanFail \/ schemaChanges \in DOMAIN log
            /\ faults' = faults + 1
            /\ tx' = NoTx
            /\ openTx' = openTx - 1
            /\ Return(Err(ErrInsert, schemaChanges, << >>, << >>))
    /\ Log(Event("insert", schemaChanges, b, Outcome(ok)))
    /\ UNCHANGED <<log, schemaChanges, currentTx, data, b, rest>>
    /\ UNCHANGED hist
    /\ UNCHANGED elsewhere

\* tx.ExecContext(ctx, string(b)): the statement itself.  implicit: the statement
\* carries an implied commit, which makes the pending insert durable and leaves the
\* connection in autocommit mode, whether the statement then succeeds or not.
ExecStatement(ok, implicit) ==
    /\ pc = "exec"
    /\ IF implicit
       THEN /\ log' = Applied(log, tx)
            /\ tx' = [tx EXCEPT !.ins = {}, !.del = {}, !.auto = TRUE]
       ELSE UNCHANGED <<log, tx>>
    /\ pc' = IF ok THEN "commit" ELSE "delete"
    /\ Log(Event("exec", schemaChanges, b, Outcome(ok)))
    /\ UNCHANGED <<openTx, schemaChanges, currentTx, data, b, rest, ret, faults>>
    /\ UNCHANGED hist
    /\ UNCHANGED elsewhere

\* a variant of the compensating delete that targets the row before the current one
CompensateDeletePrevious(ok) ==
    /\ pc = "delete"
    /\ IF ok
       THEN /\ IF tx.auto
               THEN /\ log' = DelRow(log, schemaChanges - 1)
                    /\ UNCHANGED tx
               ELSE /\ tx' = [tx EXCEPT !.del = @ \cup {schemaChanges - 1}]
                    /\ UNCHANGED log
            /\ UNCHANGED faults
       ELSE /\ CanFail
            /\ faults' = faults + 1
            /\ UNCHANGED <<log, tx>>
    /\ pc' = "deleteCommit"
    /\ Log(Event("delete", schemaChanges, b, Outcome(ok)))
    /\ UNCHANGED <<openTx, schemaChanges, currentTx, data, b, rest, ret>>
    /\ UNCHANGED hist
    /\ UNCHANGED elsewhere

\* tx.ExecContext(ctx, "DELETE FROM dbSchemaLog WHERE id=?", d.schemaChanges), its
\* error not looked at
CompensateDelete(ok) ==
    /\ pc = "delete"
    /\ IF ok
       THEN /\ IF tx.auto
               THEN /\ log' = DelRow(log, schemaChanges)
                    /\ UNCHANGED tx
               ELSE /\ tx' = [tx EXCEPT !.del = @ \cup {schemaChanges}]
                    /\ UNCHANGED log
            /\ UNCHANGED faults
       ELSE /\ CanFail
            /\ faults' = faults + 1
            /\ UNCHANGED <<log, tx>>
    /\ pc' = "deleteCommit"
    /\ Log(Event("delete", schemaChanges, b, Outcome(ok)))
    /\ UNCHANGED <<openTx, schemaChanges, currentTx, data, b, rest, ret>>
    /\ UNCHANGED hist
    /\ UNCHANGED elsewhere

\* tx.Commit() after the delete, its error not looked at, and the return of the
\* schema-change error.  A commit that fails may or may not have been made.
CompensateCommit(ok, made) ==
    /\ pc = "deleteCommit"
    /\ ok => made
    /\ IF ok
       THEN UNCHANGED faults
       ELSE /\ CanFail
            /\ faults' = faults + 1
    /\ log' = IF made THEN Applied(log, tx) ELSE log
    /\ tx' = NoTx
    /\ openTx' = openTx - 1
    /\ Return(Err(ErrChange, schemaChanges, << >>, b))
    /\ Log(Event("commit", schemaChanges, b, Outcome(ok)))
    /\ UNCHANGED <<schemaChanges, currentTx, data, b, rest>>
    /\ UNCHANGED hist
    /\ UNCHANGED elsewhere

\* a variant of the commit that, when it fails, goes on to the compensating delete
\* as for a failed statement
CommitTxCompensating(ok, made) ==
    /\ pc = "commit"
    /\ ok => made
    /\ ok \/ CanFail
    /\ log' = IF made THEN Applied(log, tx) ELSE log
    /\ faults' = IF ok THEN faults ELSE faults + 1
    /\ IF ok
       THEN /\ tx' = NoTx
            /\ openTx' = openTx - 1
            /\ pc' = "read"
       ELSE /\ tx' = [tx EXCEPT !.ins = {}, !.del = {}]
            /\ pc' = "delete"
            /\ UNCHANGED openTx
    /\ Log(Event("commit", schemaChanges, b, Outcome(ok)))
    /\ UNCHANGED <<schemaChanges, currentTx, data, b, rest, ret>>
    /\ UNCHANGED hist
    /\ UNCHANGED elsewhere

\* e = tx.Commit() after the statement succeeded; tx.Rollback() when it fails
CommitTx(ok, made) ==
    /\ pc = "commit"
    /\ ok => made
    /\ log' = IF made THEN Applied(log, tx) ELSE log
    /\ tx' = NoTx
    /\ openTx' = openTx - 1
    /\ IF ok
       THEN /\ pc' = "read"
            /\ UNCHANGED <<ret, faults>>
       ELSE /\ CanFail
            /\ faults' = faults + 1
            /\ Return(Err(ErrCommit, schemaChanges, << >>, b))
    /\ Log(Event("commit", schemaChanges, b, Outcome(ok)))
    /\ UNCHANGED <<schemaChanges, currentTx, data, b, rest>>
    /\ UNCHANGED hist
    /\ UNCHANGED elsewhere

(* ------------------------------- Update -------------------------------- *)
\* a Go interface value: its dynamic type and its value
Iface(t, v) == <<t, v>>
NilIface == Iface("nil", "")
EmptyString == Iface("string", "")
\* the columns and the values a caller may put in the map
UpdKeys == {"id", "name", "age"}
UpdValues == {EmptyString, Iface("string", "5"), Iface("int", "7")}
UpdateMaps == UNION {[K -> UpdValues] : K \in SUBSET UpdKeys}

ErrMissingID == "is missing the ID, please always include a row ID column"
ErrExec == "error of d.db.Exec"
PanicIndex == "runtime error: index out of range"
NoResult == [kind |-> "none", msg |-> "", row |-> 0]
\* Update returned (count, err) with this err; row is the %v of the message
Returns(m, n) == [kind |-> "return", msg |-> m, row |-> n]
\* Update did not return: the goroutine panicked
Panics(m) == [kind |-> "panic", msg |-> m, row |-> 0]

UpdIdle ==
    [pc |-> "idle", updates |-> << >>, todo |-> {}, id |-> NilIface, i |-> 0,
     sql |-> << >>, vals |-> << >>, sent |-> << >>, ret |-> NoResult]

\* the call d.Update(m, table): var id interface{}; i := 0; sql := "UPDATE ... SET ";
\* vals := make([]interface{}, len(updates))
UpdateCall(m) ==
    /\ upd.pc = "idle"
    /\ upd' = [pc |-> "range", updates |-> m, todo |-> DOMAIN m, id |-> NilIface, i |-> 0,
               sql |-> << >>,
               vals |-> [j \in 0..(Cardinality(DOMAIN m) - 1) |-> NilIface],
               sent |-> << >>, ret |-> NoResult]
    /\ UNCHANGED <<log, tx, openTx, schemaChanges, currentTx, data, b, rest, pc, ret,
                   faults, trace>>
    /\ UNCHANGED <<hist, clog, runs, clog0, ops>>

\* one turn of for k, v := range updates, the map handing its keys over in any order
UpdateRange(k) ==
    /\ upd.pc = "range"
    /\ k \in upd.todo
    /\ upd' = IF k = "id"
              THEN [upd EXCEPT !.todo = @ \ {k}, !.id = upd.updates[k]]
              ELSE [upd EXCEPT !.todo = @ \ {k},
                               !.sql = Append(@, k),
                               !.vals = [@ EXCEPT ![upd.i] = upd.updates[k]],
                               !.i = @ + 1]
    /\ UNCHANGED <<log, tx, openTx, schemaChanges, currentTx, data, b, rest, pc, ret,
                   faults, trace>>
    /\ UNCHANGED <<hist, clog, runs, clog0, ops>>

\* after the loop: vals[i] = id, which panics when i is not an index of vals, then
\* the test id == ""
UpdateStore ==
    /\ upd.pc = "range"
    /\ upd.todo = {}
    /\ upd' = IF upd.i \notin DOMAIN upd.vals
              THEN [upd EXCEPT !.pc = "idle", !.ret = Panics(PanicIndex)]
              ELSE IF upd.id = EmptyString
              THEN [upd EXCEPT !.pc = "idle",
                               !.vals = [@ EXCEPT ![upd.i] = upd.id],
                               !.ret = Returns(ErrMissingID, upd.i)]
              ELSE [upd EXCEPT !.pc = "exec",
                               !.vals = [@ EXCEPT ![upd.i] = upd.id]]
    /\ UNCHANGED <<log, tx, openTx, schemaChanges, currentTx, data, b, rest, pc, ret,
                   faults, trace>>
    /\ UNCHANGED <<hist, clog, runs, clog0, ops>>

\* res, err := d.db.Exec(query, vals...) and the return of its outcome
UpdateExec(ok) ==
    /\ upd.pc = "exec"
    /\ upd' = [upd EXCEPT !.pc = "idle",
                          !.sent = <<[set |-> upd.sql, args |-> upd.vals]>>,
                          !.ret = IF ok THEN Returns("nil", 0) ELSE Returns(ErrExec, 0)]
    /\ UNCHANGED <<log, tx, openTx, schemaChanges, currentTx, data, b, rest, pc, ret,
                   faults, trace>>
    /\ UNCHANGED <<hist, clog, runs, clog0, ops>>

(* ------------------ two runs of Schema at the same time ---------------- *)
\* Two processes each call Schema once, on a DB value of their own, with the same
\* source, against one database.  A step is one database round trip.  The source is
\* taken as the sequence of its non-blank lines: ReadLine and the assembly of the
\* lines are as in ReadLineStep and are not repeated here.
Procs == {1, 2}
ConcSources == SeqsUpTo({<<x>> : x \in Letters}, MaxConcLen)

\* the locals of an invocation, and the field d.schemaChanges of its DB value
RunStart(S) ==
    [pc |-> "prelim", schemaChanges |-> 0, currentTx |-> << >>, b |-> << >>,
     rest |-> S, tx |-> NoTx, ret |-> Running, faults |-> 0]

ConcEvent(p, kind, n, text, res, durable) ==
    [proc |-> p, op |-> kind, row |-> n, text |-> text, res |-> res, durable |-> durable]
ConcLog(e) == ops' = Append(ops, e)
ConcCanFail(p) == runs[p].faults < ConcMaxFaults
\* another transaction holds an uncommitted row n: an insert of id n waits for it
HeldByOther(p, n) == \E q \in Procs \ {p} : \E r \in runs[q].tx.ins : r[1] = n

\* the log-table step: begin, CREATE TABLE IF NOT EXISTS, commit; err is the error of
\* the first of them that fails, "nil" when none does
ConcPrelim(p, err) ==
    /\ runs[p].pc = "prelim"
    /\ IF err = "nil"
       THEN runs' = [runs EXCEPT ![p].pc = "read"]
       ELSE /\ ConcCanFail(p)
            /\ runs' = [runs EXCEPT ![p].pc = "idle",
                                    ![p].faults = @ + 1,
                                    ![p].ret = Err(err, 0, << >>, << >>)]
    /\ UNCHANGED <<clog, clog0, ops>>

\* the next non-blank line and d.schemaChanges++, or the return of nil at io.EOF
ConcRead(p) ==
    /\ runs[p].pc = "read"
    /\ IF runs[p].rest = << >>
       THEN runs' = [runs EXCEPT ![p].pc = "idle", ![p].ret = Nil]
       ELSE runs' = [runs EXCEPT ![p].pc = "lookup",
                                 ![p].b = Head(runs[p].rest),
                                 ![p].rest = Tail(runs[p].rest),
                                 ![p].schemaChanges = @ + 1]
    /\ UNCHANGED <<clog, clog0, ops>>

\* the lookup of row d.schemaChanges, outside any transaction: it sees the committed
\* rows
ConcLookup(p, failed) ==
    /\ runs[p].pc = "lookup"
    /\ failed => ConcCanFail(p)
    /\ LET me == runs[p]
           r == Scan(clog, me.schemaChanges, me.currentTx, failed)
           c == Classify(r.currentTx, me.b, r.e)
           f == IF failed THEN me.faults + 1 ELSE me.faults
       IN  runs' = [runs EXCEPT ![p] =
                 IF c = "skip"
                 THEN [me EXCEPT !.currentTx = r.currentTx, !.faults = f, !.pc = "read"]
                 ELSE IF c = "halt"
                 THEN [me EXCEPT !.currentTx = r.currentTx, !.faults = f, !.pc = "idle",
                                 !.ret = Err(ErrNoMatch, me.schemaChanges, r.currentTx, me.b)]
                 ELSE [me EXCEPT !.currentTx = r.currentTx, !.faults = f, !.pc = "begin"]]
    /\ UNCHANGED <<clog, clog0, ops>>

\* tx, e = d.db.BeginTx(ctx, nil) for the statement
ConcBegin(p, ok) ==
    /\ runs[p].pc = "begin"
    /\ IF ok
       THEN runs' = [runs EXCEPT ![p].pc = "insert", ![p].tx = [NoTx EXCEPT !.open = TRUE]]
       ELSE /\ ConcCanFail(p)
            /\ runs' = [runs EXCEPT ![p].pc = "idle",
                                    ![p].faults = @ + 1,
                                    ![p].ret = Err(ErrBeginTx, 0, << >>, << >>)]
    /\ UNCHANGED <<clog, clog0, ops>>

\* a variant of the insert on a table without the primary key: the insert succeeds
\* whatever the table and the other transaction hold
ConcInsertNoKey(p, res) ==
    /\ runs[p].pc = "insert"
    /\ res = "ok"
    /\ runs' = [runs EXCEPT ![p].pc = "exec",
                            ![p].tx.ins = @ \cup {<<runs[p].schemaChanges, runs[p].b>>}]
    /\ ConcLog(ConcEvent(p, "insert", runs[p].schemaChanges, runs[p].b, res, FALSE))
    /\ UNCHANGED <<clog, clog0>>

\* the INSERT of the log row; tx.Rollback() when it fails.  res: "ok"; "refused", by
\* the primary key when the table holds the id, or after waiting in vain for the
\* transaction that holds it uncommitted; "fail", for any other reason.  While
\* another transaction holds the id uncommitted the insert does not succeed.
ConcInsert(p, res) ==
    /\ runs[p].pc = "insert"
    /\ LET n == runs[p].schemaChanges
       IN  /\ res = "ok" => n \notin DOMAIN clog /\ ~HeldByOther(p, n)
           /\ res = "refused" => n \in DOMAIN clog \/ HeldByOther(p, n)
           /\ res = "fail" => ConcCanFail(p)
           /\ IF res = "ok"
              THEN runs' = [runs EXCEPT ![p].pc = "exec",
                                        ![p].tx.ins = @ \cup {<<n, runs[p].b>>}]
              ELSE runs' = [runs EXCEPT ![p].pc = "idle",
                                        ![p].tx = NoTx,
                                        ![p].faults = IF res = "fail" THEN @ + 1 ELSE @,
                                        ![p].ret = Err(ErrInsert, n, << >>, << >>)]
           /\ ConcLog(ConcEvent(p, "insert", n, runs[p].b, res, FALSE))
    /\ UNCHANGED <<clog, clog0>>

\* the statement itself; implicit: it carries an implied commit
ConcExec(p, ok, implicit) ==
    /\ runs[p].pc = "exec"
    /\ clog' = IF implicit THEN Applied(clog, runs[p].tx) ELSE clog
    /\ runs' = [runs EXCEPT ![p].pc = IF ok THEN "commit" ELSE "delete",
                            ![p].tx = IF implicit
                                      THEN [@ EXCEPT !.ins = {}, !.del = {}, !.auto = TRUE]
                                      ELSE @]
    /\ ConcLog(ConcEvent(p, "exec", runs[p].schemaChanges, runs[p].b, Outcome(ok), implicit))
    /\ UNCHANGED clog0

\* the DELETE of row d.schemaChanges after the statement failed, its error not
\* looked at
ConcDelete(p, ok) ==
    /\ runs[p].pc = "delete"
    /\ ~ok => ConcCanFail(p)
    /\ clog' = IF ok /\ runs[p].tx.auto THEN DelRow(clog, runs[p].schemaChanges) ELSE clog
    /\ runs' = [runs EXCEPT ![p].pc = "deleteCommit",
                            ![p].faults = IF ok THEN @ ELSE @ + 1,
                            ![p].tx.del = IF ok /\ ~runs[p].tx.auto
                                          THEN @ \cup {runs[p].schemaChanges}
                                          ELSE @]
    /\ ConcLog(ConcEvent(p, "delete", runs[p].schemaChanges, runs[p].b, Outcome(ok), FALSE))
    /\ UNCHANGED clog0

\* tx.Commit() after the delete, its error not looked at, and the return of the
\* schema-change error
ConcDeleteCommit(p, ok, made) ==
    /\ runs[p].pc = "deleteCommit"
    /\ ok => made
    /\ ~ok => ConcCanFail(p)
    /\ clog' = IF made THEN Applied(clog, runs[p].tx) ELSE clog
    /\ runs' = [runs EXCEPT ![p].pc = "idle",
                            ![p].tx = NoTx,
                            ![p].faults = IF ok THEN @ ELSE @ + 1,
                            ![p].ret = Err(ErrChange, runs[p].schemaChanges, << >>, runs[p].b)]
    /\ ConcLog(ConcEvent(p, "commit", runs[p].schemaChanges, runs[p].b, Outcome(ok), made))
    /\ UNCHANGED clog0

\* tx.Commit() after the statement succeeded; tx.Rollback() when it fails
ConcCommit(p, ok, made) ==
    /\ runs[p].pc = "commit"
    /\ ok => made
    /\ ~ok => ConcCanFail(p)
    /\ clog' = IF made THEN Applied(clog, runs[p].tx) ELSE clog
    /\ runs' = IF ok
               THEN [runs EXCEPT ![p].pc = "read", ![p].tx = NoTx]
               ELSE [runs EXCEPT ![p].pc = "idle",
                                 ![p].tx = NoTx,
                                 ![p].faults = @ + 1,
                                 ![p].ret = Err(ErrCommit, runs[p].schemaChanges, << >>, runs[p].b)]
    /\ ConcLog(ConcEvent(p, "commit", runs[p].schemaChanges, runs[p].b, Outcome(ok), made))
    /\ UNCHANGED clog0

(* --------------------------- specification ----------------------------- *)
SchemaInit ==
    /\ log \in InitLogs
    /\ tx = NoTx
    /\ openTx = 0
    /\ schemaChanges = 0
    /\ currentTx = << >>
    /\ data = << >>
    /\ b = << >>
    /\ rest = << >>
    /\ pc = "idle"
    /\ ret = Running
    /\ faults = 0
    /\ src = << >>
    /\ seq0 = 0
    /\ log0 = log
    /\ trace = << >>
    /\ prev = [msg |-> Running.msg, row |-> 0, faults |-> 0]
    /\ run = 0

\* no two runs at the same time are under way
ConcAtRest ==
    /\ clog = << >>
    /\ clog0 = << >>
    /\ runs = [p \in Procs |-> [RunStart(<< >>) EXCEPT !.pc = "idle"]]
    /\ ops = << >>

Init ==
    /\ SchemaInit
    /\ upd = UpdIdle
    /\ ConcAtRest

\* the caller: a first invocation with any source, then retries with the same source,
\* on the same DB value or on a newly connected one
Sources == IF run = 0 THEN Streams ELSE {src}

Next ==
    \/ Connect
    \/ \E s \in Sources : SchemaCall(s)
    \/ \E ok \in BOOLEAN : PrelimBegin(ok)
    \/ \E ok \in BOOLEAN : PrelimCreate(ok)
    \/ \E ok \in BOOLEAN : PrelimCommit(ok)
    \/ \E errWithData \in BOOLEAN, end \in {"EOF", "ERR"} : ReadLineStep(errWithData, end)
    \/ \E failed \in BOOLEAN : Lookup(failed)
    \/ \E ok \in BOOLEAN : BeginTx(ok)
    \/ \E ok \in BOOLEAN : InsertLog(ok)
    \/ \E ok \in BOOLEAN, implicit \in BOOLEAN : ExecStatement(ok, implicit)
    \/ \E ok \in BOOLEAN : CompensateDelete(ok)
    \/ \E ok \in BOOLEAN, made \in BOOLEAN : CompensateCommit(ok, made)
    \/ \E ok \in BOOLEAN, made \in BOOLEAN : CommitTx(ok, made)

Spec == Init /\ [][Next]_vars

\* Update alone, on a DB that Schema is not running on
InitUpdate ==
    /\ Init
    /\ log = << >>

NextUpdate ==
    \/ \E m \in UpdateMaps : UpdateCall(m)
    \/ \E k \in UpdKeys : UpdateRange(k)
    \/ UpdateStore
    \/ \E ok \in BOOLEAN : UpdateExec(ok)

SpecUpdate == InitUpdate /\ [][NextUpdate]_vars

\* two runs at the same time, alone: both invocations have been made
InitConc ==
    /\ SchemaInit
    /\ log = << >>
    /\ upd = UpdIdle
    /\ clog \in InitLogs
    /\ clog0 = clog
    /\ \E S \in ConcSources : runs = [p \in Procs |-> RunStart(S)]
    /\ ops = << >>

PrelimOutcomes == {"nil", ErrBeginTx, ErrCreateLog, ErrCommitLog}

NextConc ==
    /\ \E p \in Procs :
          \/ \E err \in PrelimOutcomes : ConcPrelim(p, err)
          \/ ConcRead(p)
          \/ \E failed \in BOOLEAN : ConcLookup(p, failed)
          \/ \E ok \in BOOLEAN : ConcBegin(p, ok)
          \/ \E res \in {"ok", "refused", "fail"} : ConcInsert(p, res)
          \/ \E ok \in BOOLEAN, implicit \in BOOLEAN : ConcExec(p, ok, implicit)
          \/ \E ok \in BOOLEAN : ConcDelete(p, ok)
          \/ \E ok \in BOOLEAN, made \in BOOLEAN : ConcDeleteCommit(p, ok, made)
          \/ \E ok \in BOOLEAN, made \in BOOLEAN : ConcCommit(p, ok, made)
    /\ UNCHANGED <<log, tx, openTx, schemaChanges, currentTx, data, b, rest, pc, ret,
                   faults, trace, upd>>
    /\ UNCHANGED hist

SpecConc == InitConc /\ [][NextConc]_vars

(* ------------------------ what the claims speak of --------------------- *)
\* the logical lines of a source: the pieces between newlines, the last one ended by
\* the end of the stream when it is not empty
RECURSIVE Lines(_)
Lines(s) ==
    IF s = << >> THEN << >>
    ELSE IF HasNL(s) THEN <<SubSeq(s, 1, FirstNL(s) - 1)>> \o Lines(From(s, FirstNL(s) + 1))
    ELSE <<s>>

NonBlank(l) == l # << >>
\* the non-blank statements of a source, in order
Statements(s) == SelectSeq(Lines(s), NonBlank)

\* the last invocation has returned
Returned == pc = "idle" /\ run > 0
\* the invocation started on a newly connected DB: its sequence count starts from 1
NewDB == seq0 = 0
\* the source does not end in an unterminated line that fills the reader's buffer
\* exactly (the case C9 is about)
EndsClean(s) ==
    \/ s = << >>
    \/ s[Len(s)] = NL
    \/ Len(Lines(s)[Len(Lines(s))]) % BufSize # 0
\* no read of the source failed in this invocation
NoReadError == \A i \in 1..Len(trace) : ~(trace[i].op = "read" /\ trace[i].res = "ERR")
\* this invocation met no failure of its environment
NoFault == faults = 0 /\ NoReadError
Contiguous(l) == \E n \in 0..Cardinality(DOMAIN l) : DOMAIN l = 1..n
\* rows 1..n of l are the first n statements of s
Matches(l, s, n) ==
    /\ n <= Len(Statements(s))
    /\ \A k \in 1..n : k \in DOMAIN l /\ l[k] = Statements(s)[k]
Has(kind, n) == \E i \in 1..Len(trace) : trace[i].op = kind /\ trace[i].row = n
IsLookup(e) == e.op = "lookup"
Lookups == SelectSeq(trace, IsLookup)
\* the operations of the per-statement transaction
StatementOps == {"insert", "exec", "delete"}
TouchedLog == \E i \in 1..Len(trace) : trace[i].op \in StatementOps \/ (trace[i].op = "begin" /\ trace[i].row > 0)

(* -------------------------------- claims ------------------------------- *)
\* C1: when Schema returns nil, every non-blank statement of the source is in the log
\* under its position with its text.  Stated for the invocations on a newly connected
\* DB that met no failure, on a source that ends clean.
C1_NilMeansLogged ==
    (Returned /\ ret = Nil /\ NewDB /\ NoFault /\ EndsClean(src))
        => Matches(log, src, Len(Statements(src)))

\* C2: an invocation on a newly connected DB that starts from a log with ids 1..M, and
\* meets no failed round trip, leaves the ids of the log a run 1..N at every moment.
C2_NoGaps ==
    (run > 0 /\ NewDB /\ faults = 0 /\ Contiguous(log0)) => Contiguous(log)

\* C3: after an invocation halted with the schema-change error at sequence n and left
\* rows 1..n-1 matching the source and no row n, the next invocation, on a newly
\* connected DB with the same source and no failure, inserts log row n and executes
\* statement n again.
C3_RetryApplies ==
    (/\ Returned /\ run = 2 /\ NewDB /\ NoFault /\ EndsClean(src)
     /\ prev.msg = ErrChange
     /\ prev.row >= 1
     /\ Matches(log0, src, prev.row - 1)
     /\ prev.row \notin DOMAIN log0)
        => Has("insert", prev.row) /\ Has("exec", prev.row)

\* C4: when Schema returns the schema-change error for sequence n, the log holds no
\* row n.
C4_ApplyErrorLeavesNoRow ==
    (Returned /\ ret.msg = ErrChange) => ret.row \notin DOMAIN log

\* C5: when an invocation returned nil, the next one, with the same source on a newly
\* connected DB, skips every statement: it begins no statement transaction, executes
\* nothing, leaves the log as it was and returns nil.  Stated for two invocations
\* that met no failure, on a source that ends clean.
C5_SecondRunIsNoOp ==
    (run = 2 /\ prev.msg = Nil.msg /\ prev.faults = 0 /\ NewDB /\ NoFault /\ EndsClean(src))
        => /\ ~TouchedLog
           /\ log = log0
           /\ Returned => ret = Nil

\* C6: in every invocation, the first included or not, the k-th lookup is the lookup
\* of row k for the k-th non-blank statement of that invocation's source, and a row
\* is inserted only under the position of its text in that source.
C6_NumberedBySourcePosition ==
    /\ \A k \in 1..Len(Lookups) :
          /\ Lookups[k].row = k
          /\ k <= Len(Statements(src))
          /\ Lookups[k].text = Statements(src)[k]
    /\ \A i \in 1..Len(trace) :
          trace[i].op = "insert"
              => /\ trace[i].row \in 1..Len(Statements(src))
                 /\ trace[i].text = Statements(src)[trace[i].row]

\* C7: when the log holds a row n that differs from the n-th non-blank statement of
\* the source, the rows before it matching the statements before it, Schema halts at
\* n with the error that carries n, the stored text and the incoming text, and has
\* touched neither the log nor the target.  Stated for the invocations that met no
\* failure, on a source that ends clean.
C7_DivergenceHalts ==
    \A n \in 1..Len(Statements(src)) :
        (/\ Returned /\ NoFault /\ EndsClean(src)
         /\ Matches(log0, src, n - 1)
         /\ n \in DOMAIN log0
         /\ log0[n] # Statements(src)[n])
            => /\ ret = Err(ErrNoMatch, n, log0[n], Statements(src)[n])
               /\ log = log0
               /\ ~TouchedLog

\* C8: a lookup that fails with an error other than "no such row" ends the
\* invocation with an error: it is the last operation of the invocation.
C8_LookupErrorHalts ==
    \A i \in 1..Len(trace) :
        (trace[i].op = "lookup" /\ trace[i].res = "error")
            => /\ i = Len(trace)
               /\ pc = "idle"
               /\ ret.msg \notin {Nil.msg, Running.msg}

\* C9: the statements looked up are the non-blank logical lines of the source, each
\* once, in order and whole: a prefix of them while Schema runs, all of them when it
\* returns nil.
C9_LinesAssembled ==
    /\ \A k \in 1..Len(Lookups) :
          k <= Len(Statements(src)) /\ Lookups[k].text = Statements(src)[k]
    /\ (Returned /\ ret = Nil) => Len(Lookups) = Len(Statements(src))

\* the part of the source read so far
Consumed == SubSeq(src, 1, Len(src) - Len(rest))

\* C10: a statement about to be looked up is not blank, and its sequence number is
\* one plus the number of non-empty lines before it in the source.
C10_BlankLinesTakeNoNumber ==
    pc = "lookup"
        => /\ b # << >>
           /\ Len(Statements(Consumed)) >= 1
           /\ b = Statements(Consumed)[Len(Statements(Consumed))]
           /\ schemaChanges = 1 + (Len(Statements(Consumed)) - 1)

(* ------- C7 and C10 where the counter of C6 is out of play ------------- *)
\* C7 on a newly connected DB
C7_OnNewDB ==
    \A n \in 1..Len(Statements(src)) :
        (/\ Returned /\ NewDB /\ NoFault /\ EndsClean(src)
         /\ Matches(log0, src, n - 1)
         /\ n \in DOMAIN log0
         /\ log0[n] # Statements(src)[n])
            => /\ ret = Err(ErrNoMatch, n, log0[n], Statements(src)[n])
               /\ log = log0
               /\ ~TouchedLog

\* C10 on a newly connected DB
C10_OnNewDB == NewDB => C10_BlankLinesTakeNoNumber

(* ------------------------- halting on a failure ------------------------ *)
\* the lookup at i found a row whose text is not the incoming statement
Diverges(i) ==
    /\ trace[i].op = "lookup"
    /\ trace[i].res = "nil"
    /\ trace[i].row \in DOMAIN log0
    /\ log0[trace[i].row] # trace[i].text
\* the operation at i failed otherwise than by a lookup error
FailedOp(i) ==
    \/ trace[i].op = "read" /\ trace[i].res = "ERR"
    \/ trace[i].op \in {"begin", "create", "commit", "insert", "exec"} /\ trace[i].res = "fail"
    \/ Diverges(i)
LookupError(i) == trace[i].op = "lookup" /\ trace[i].res = "error"
\* nothing follows the operation at i but, after a failed statement, the delete and
\* the commit of that statement's transaction; Schema then returns an error, the
\* read error for a failed read
HaltsAt(i) ==
    /\ \A j \in (i + 1)..Len(trace) :
          /\ trace[i].op = "exec"
          /\ trace[j].op \in {"delete", "commit"}
          /\ trace[j].row = trace[i].row
    /\ \/ pc = "idle"
       \/ trace[i].op = "exec" /\ pc \in {"delete", "deleteCommit"}
    /\ pc = "idle" => ret.msg \notin {Nil.msg, Running.msg}
    /\ (pc = "idle" /\ trace[i].op = "read") => ret.msg = ErrRead

\* C11: Schema halts at the first fatal condition (a failed read, a failed creation
\* of the log table, a divergence, a lookup error, a failed begin or insert, a failed
\* statement, a failed commit): no read, lookup, insert or statement follows it, and
\* Schema returns an error.
C11_HaltsOnFirstFatal ==
    \A i \in 1..Len(trace) : (FailedOp(i) \/ LookupError(i)) => HaltsAt(i)

\* C11 for every fatal condition but the lookup error
C11_OtherThanLookupError ==
    \A i \in 1..Len(trace) : FailedOp(i) => HaltsAt(i)

(* ------------------------- the log-table step -------------------------- *)
\* the operations of the log-table step, in the order Schema issues them
PrelimOps == <<"begin", "create", "commit">>
PrelimErrors == <<ErrBeginTx, ErrCreateLog, ErrCommitLog>>

\* C12: the first three operations of an invocation are the begin, the CREATE and
\* the commit of the log-table step, each issued only when the one before succeeded;
\* whatever else Schema does (a read, a lookup, a statement) comes after the three
\* succeeded; when one of them fails it is the last operation of the invocation and
\* Schema returns that step's error.
C12_LogTableFirst ==
    \A i \in 1..Len(trace) :
        /\ i <= 3 => /\ trace[i].op = PrelimOps[i]
                     /\ trace[i].row = 0
        /\ i > 1 => trace[Min(i - 1, 3)].res = "ok"
        /\ (i <= 3 /\ trace[i].res = "fail")
              => /\ i = Len(trace)
                 /\ pc = "idle"
                 /\ ret = Err(PrelimErrors[i], 0, << >>, << >>)

\* the log-table step succeeded and the lookup of the first statement is due
C12_Witness ==
    /\ pc = "lookup"
    /\ Len(trace) > 3
    /\ trace[2] = Event("create", 0, << >>, "ok")
    /\ trace[3] = Event("commit", 0, << >>, "ok")
    /\ Len(Lookups) = 0

(* ------------------------------ end to end ----------------------------- *)
IsExec(e) == e.op = "exec"
\* the statements executed against the target in this invocation, in order
Execs == SelectSeq(trace, IsExec)
ExecTexts == [k \in 1..Len(Execs) |-> Execs[k].text]
AllExecsOk == \A k \in 1..Len(Execs) : Execs[k].res = "ok"
\* the log that holds exactly the statements of s under their positions
LogOf(s) == [k \in 1..Len(Statements(s)) |-> Statements(s)[k]]

\* C13: an invocation that starts from an empty log and meets no failure (no failed
\* round trip, read or statement) returns nil, leaves in the log exactly the rows
\* 1..K, row k the k-th statement of the source, and has executed each statement
\* once, in source order.
C13_EndToEnd ==
    (Returned /\ log0 = << >> /\ NoFault /\ AllExecsOk)
        => /\ ret = Nil
           /\ log = LogOf(src)
           /\ ExecTexts = Statements(src)

\* C13 for an invocation on a newly connected DB whose source ends clean
C13_OnNewDBCleanEnd ==
    (NewDB /\ EndsClean(src)) => C13_EndToEnd

(* --------------------- the transaction of a statement ------------------ *)
\* the operation at i is the one of kind op for the statement of the operation at j,
\* and it succeeded
OkFor(i, op, j) == trace[i] = Event(op, trace[j].row, trace[j].text, "ok")

\* C15: a statement is executed only right after the successful insert of its own
\* log row, and that only right after the successful begin of a transaction for it;
\* a statement that succeeded is followed by the commit and by nothing else; an
\* insert that failed is the last operation of the invocation: the transaction is
\* rolled back, the statement is not executed and Schema returns the insert error.
C15_InsertExecCommit ==
    \A i \in 1..Len(trace) :
        /\ trace[i].op = "exec"
              => /\ i > 2
                 /\ OkFor(i - 1, "insert", i)
                 /\ OkFor(i - 2, "begin", i)
        /\ trace[i].op = "insert"
              => /\ i > 1
                 /\ OkFor(i - 1, "begin", i)
                 /\ trace[i].row > 0
        /\ (trace[i].op = "exec" /\ trace[i].res = "ok")
              => IF i = Len(trace) THEN pc = "commit" /\ tx.open
                 ELSE /\ trace[i + 1].op = "commit"
                      /\ trace[i + 1].row = trace[i].row
        /\ (trace[i].op = "insert" /\ trace[i].res = "fail")
              => /\ i = Len(trace)
                 /\ pc = "idle"
                 /\ tx = NoTx
                 /\ ret = Err(ErrInsert, trace[i].row, << >>, << >>)

\* a statement went through begin, insert, execution and commit, all four succeeding
C15_Witness ==
    /\ Len(trace) > 3
    /\ OkFor(Len(trace), "commit", Len(trace))
    /\ OkFor(Len(trace) - 1, "exec", Len(trace))
    /\ OkFor(Len(trace) - 2, "insert", Len(trace))
    /\ OkFor(Len(trace) - 3, "begin", Len(trace))
    /\ trace[Len(trace)].row > 0
    /\ trace[Len(trace)].row \in DOMAIN log

(* --------------------------- a failed commit --------------------------- *)
\* the operations on the statement of the operation at i
OpsOn(op, i) == {j \in 1..Len(trace) : trace[j].op = op /\ trace[j].row = trace[i].row}

\* C16: when the commit that follows a successful insert and a successful execution
\* fails, it is the last operation of the invocation; Schema returns the commit
\* error, which is not the schema-change error and carries the sequence; the row was
\* not deleted and the statement was executed once.
C16_CommitFailureHalts ==
    \A i \in 1..Len(trace) :
        (/\ i > 1
         /\ trace[i].op = "commit" /\ trace[i].res = "fail"
         /\ OkFor(i - 1, "exec", i))
            => /\ i = Len(trace)
               /\ pc = "idle"
               /\ ret = Err(ErrCommit, trace[i].row, << >>, trace[i].text)
               /\ ret.msg # ErrChange
               /\ ret.row > 0
               /\ OpsOn("delete", i) = {}
               /\ OpsOn("exec", i) = {i - 1}

\* Schema returned after the commit of an executed statement failed
C16_Witness ==
    /\ Returned
    /\ Len(trace) > 1
    /\ trace[Len(trace)].op = "commit" /\ trace[Len(trace)].res = "fail"
    /\ OkFor(Len(trace) - 1, "exec", Len(trace))

(* ------------------------- a cancelled context ------------------------- *)
\* the round trips to the database, which take the caller's context
RoundTrips == {"lookup", "begin", "insert", "exec", "delete", "commit"}
FailedTrip(e) == e.op \in RoundTrips /\ e.res \in {"fail", "error"}
\* the context may have been cancelled during the round trip at i, made for a
\* statement: that round trip failed, and so did every round trip after it
CutShortAt(i) ==
    /\ trace[i].row > 0
    /\ FailedTrip(trace[i])
    /\ \A j \in (i + 1)..Len(trace) : trace[j].op \in RoundTrips => FailedTrip(trace[j])
NoLaterStatement(i) ==
    \A j \in (i + 1)..Len(trace) : trace[j].op = "lookup" => trace[j].row = trace[i].row

\* C17: when the context is cancelled during a round trip made for a statement,
\* Schema goes on to no later statement and does not return nil.
C17_CancellationReported ==
    \A i \in 1..Len(trace) :
        CutShortAt(i) => /\ NoLaterStatement(i)
                         /\ Returned => ret # Nil

\* C17 for a cancellation that does not strike the lookup
C17_OtherThanLookup ==
    \A i \in 1..Len(trace) :
        (CutShortAt(i) /\ trace[i].op # "lookup")
            => /\ NoLaterStatement(i)
               /\ Returned => ret # Nil

(* ------------------------------ append only ---------------------------- *)
\* row k is the row of the statement in hand: inserted in its transaction, which has
\* not been committed, and its execution has just failed
OwnFailedRow(k) ==
    /\ k = schemaChanges
    /\ k \notin DOMAIN log0
    /\ pc = "delete"
    /\ Len(trace) > 1
    /\ trace[Len(trace)] = Event("exec", k, b, "fail")
    /\ trace[Len(trace) - 1] = Event("insert", k, b, "ok")
    /\ \A j \in 1..Len(trace) : ~(trace[j].op = "commit" /\ trace[j].row = k)

\* C18: no step changes the text of a log row, and a step removes a row only when it
\* is the row inserted in the transaction of the statement in hand, whose execution
\* failed; a row that was there when the invocation started, or whose statement was
\* committed, stays as it is.
C18_AppendOnly ==
    [][\A k \in DOMAIN log :
          IF k \in DOMAIN log' THEN log'[k] = log[k] ELSE OwnFailedRow(k)]_vars

\* the compensating delete has just removed the row of a failed statement from a log
\* that held other rows, which are all still there
C18_Witness ==
    /\ pc = "deleteCommit"
    /\ trace[Len(trace)] = Event("delete", schemaChanges, b, "ok")
    /\ tx.auto
    /\ schemaChanges \notin DOMAIN log
    /\ log0 # << >>
    /\ log = log0

(* ------------------------- transactions left open ---------------------- *)
\* C19: when Schema has returned, every transaction it began has been ended by
\* Commit or Rollback: none is open.
C19_NoOpenTransaction ==
    Returned => openTx = 0

\* C19 where the CREATE of the log table did not fail, in this invocation or in the
\* one before
C19_UnlessCreateFailed ==
    (Returned /\ ret.msg # ErrCreateLog /\ prev.msg # ErrCreateLog) => openTx = 0

(* -------------------------------- Update ------------------------------- *)
UpdateDone == upd.pc = "idle" /\ upd.ret # NoResult
HasNoId == "id" \notin DOMAIN upd.updates
HasEmptyId == "id" \in DOMAIN upd.updates /\ upd.updates["id"] = EmptyString

\* C14: when Update was called with a map that has no "id" entry, or whose "id" is
\* the empty string, it returns the missing-ID error as an error value and has sent
\* no statement to the database.
C14_UpdateWithoutId ==
    (UpdateDone /\ (HasNoId \/ HasEmptyId))
        => /\ upd.ret.kind = "return"
           /\ upd.ret.msg = ErrMissingID
           /\ upd.sent = << >>

\* C14 for a map whose "id" is the empty string
C14_EmptyId ==
    (UpdateDone /\ HasEmptyId)
        => /\ upd.ret.kind = "return"
           /\ upd.ret.msg = ErrMissingID
           /\ upd.sent = << >>

(* ------------------------ two runs at the same time -------------------- *)
IsOp(i, kind, res) == ops[i].op = kind /\ ops[i].res = res
SameRow(i, j) == ops[i].row = ops[j].row
ConcNoFault == \A p \in Procs : runs[p].faults = 0
\* the operations of the run that made the operation at i, before it
Before(i) == {j \in 1..(i - 1) : ops[j].proc = ops[i].proc}
Last(S) == CHOOSE j \in S : \A k \in S : k <= j
\* the statement executed at i succeeded and its effect was made durable, by its own
\* implied commit or by the commit that followed
DurableExec(i) ==
    /\ IsOp(i, "exec", "ok")
    /\ \/ ops[i].durable
       \/ \E j \in (i + 1)..Len(ops) :
             /\ ops[j].proc = ops[i].proc
             /\ ops[j].op = "commit"
             /\ SameRow(i, j)
             /\ ops[j].durable

\* for each sequence number the insert of at most one run succeeds
OneInsertPerRow ==
    \A i, j \in 1..Len(ops) :
        (IsOp(i, "insert", "ok") /\ IsOp(j, "insert", "ok") /\ SameRow(i, j))
            => ops[i].proc = ops[j].proc
\* statement n + 1 is executed only after statement n was executed successfully, by
\* one of the two runs or before they started
InSourceOrder ==
    \A i \in 1..Len(ops) :
        (ops[i].op = "exec" /\ ops[i].row > 1)
            => \/ ops[i].row - 1 \in DOMAIN clog0
               \/ \E j \in 1..(i - 1) : IsOp(j, "exec", "ok") /\ ops[j].row = ops[i].row - 1
\* a run executes a statement only right after its own successful insert of the row
InsertBeforeExecute ==
    \A i \in 1..Len(ops) :
        ops[i].op = "exec"
            => /\ Before(i) # {}
               /\ ops[Last(Before(i))] =
                      ConcEvent(ops[i].proc, "insert", ops[i].row, ops[i].text, "ok", FALSE)
\* at any moment at most one run holds a sequence number uncommitted, and none does
\* while the log holds a committed row for it
OneHolder ==
    \A p \in Procs : \A r \in runs[p].tx.ins :
        /\ r[1] \notin DOMAIN clog
        /\ ~HeldByOther(p, r[1])
NoExecTwice ==
    \A i, j \in 1..Len(ops) :
        (IsOp(i, "exec", "ok") /\ IsOp(j, "exec", "ok") /\ SameRow(i, j)) => i = j
NoDurableExecTwice ==
    /\ \A i, j \in 1..Len(ops) : (DurableExec(i) /\ DurableExec(j) /\ SameRow(i, j)) => i = j
    /\ \A i \in 1..Len(ops) : ops[i].op = "exec" => ops[i].row \notin DOMAIN clog0

C20_OneInsertPerRow == ConcNoFault => OneInsertPerRow
C20_InSourceOrder == ConcNoFault => InSourceOrder
C20_NoExecTwice == ConcNoFault => NoExecTwice

====
